---- MODULE Spec2Model ----
(***************************************************************************)
(* A model of function_pipes (with_paramspec/function_pipes.py): the       *)
(* fast_pipes decorator, which parses the source of the decorated          *)
(* function, folds every pipe(...) call site into nested calls             *)
(* (_PipeTransformer, _CountLambdaArgUses, _LambdaExtractor), recompiles    *)
(* the tree and executes the definition in the function's globals; and     *)
(* the runtime pipe() dispatcher the folded code is compared with.         *)
(* Spec is one decoration and one call; SpecPipe is a call of a function   *)
(* that is not decorated; SpecThreads is two decorations at the same time. *)
(*                                                                         *)
(* Expressions are ast nodes: records with a "type" field named after the  *)
(* ast class, the class's fields, and "pos", the four position attributes. *)
(***************************************************************************)
EXTENDS Integers, Sequences, FiniteSets, TLC

VARIABLES
    prog,       \* the decorated function as written in its file
    strict,     \* the interpreter's compile() validates position ranges
    pc,         \* position inside fast_pipes / of the caller
    tree,       \* the ast fast_pipes works on (tree.body[0])
    ctx,        \* func.__globals__: name -> value
    exc,        \* the exception that ended the decoration or the call
    depth,      \* nesting depth of fast_pipes invocations (exec re-entering it)
    runs,       \* how many times the transformation was started
    returned,   \* the object fast_pipes returned
    result,     \* outcome of calling the returned function
    effects,    \* side effects observed so far: [count, log]
    prog2,      \* the function a second thread decorates at the same time
    pc2,        \* position of the second thread inside fast_pipes
    tree2,      \* the ast the second thread works on
    returned2   \* the object fast_pipes returned in the second thread

\* the state of the second thread
other == <<prog2, pc2, tree2, returned2>>

vars == <<prog, strict, pc, tree, ctx, exc, depth, runs, returned, result,
          effects, other>>

----------------------------------------------------------------------------
(* Bounds of the model *)

\* longest stage list of the generated pipe calls
MaxStages == 2
\* largest initial value of the generated pipe calls
MaxInit == 1

----------------------------------------------------------------------------
(* ast nodes *)

\* an attribute that was never set on a node
Missing == -1

NoPos == [lineno |-> Missing, col_offset |-> Missing,
          end_lineno |-> Missing, end_col_offset |-> Missing]

Pos(l, c, el, ec) == [lineno |-> l, col_offset |-> c,
                      end_lineno |-> el, end_col_offset |-> ec]

\* runtime values
IntV(n) == [k |-> "int", n |-> n]
NoneV == [k |-> "none"]
BoolV(b) == [k |-> "bool", b |-> b]
FnV(name) == [k |-> "fn", name |-> name]
ListV(items) == [k |-> "list", items |-> items]
\* an instance of a callable list class: called, it applies its items in
\* turn; like every list it is false when it is empty
StepsV(items) == [k |-> "steps", items |-> items]
ObjV(name, attrs) == [k |-> "obj", name |-> name, attrs |-> attrs]
ClosureV(params, body, env) ==
    [k |-> "closure", params |-> params, body |-> body, env |-> env]

Name(id, c) == [type |-> "Name", id |-> id, ctx |-> c, pos |-> NoPos]
Load(id) == Name(id, "Load")
Constant(v) == [type |-> "Constant", value |-> v, pos |-> NoPos]
Num(n) == Constant(IntV(n))
Call(func, args, keywords) ==
    [type |-> "Call", func |-> func, args |-> args, keywords |-> keywords,
     brk |-> FALSE, pos |-> NoPos]
Lambda(params, body) ==
    [type |-> "Lambda", args |-> params, body |-> body, pos |-> NoPos]
BinOp(left, op, right) ==
    [type |-> "BinOp", left |-> left, op |-> op, right |-> right, pos |-> NoPos]
IfExp(test, body, orelse) ==
    [type |-> "IfExp", test |-> test, body |-> body, orelse |-> orelse,
     pos |-> NoPos]
NamedExpr(target, value) ==
    [type |-> "NamedExpr", target |-> target, value |-> value, pos |-> NoPos]
Starred(value) == [type |-> "Starred", value |-> value, pos |-> NoPos]
Attribute(value, attr) ==
    [type |-> "Attribute", value |-> value, attr |-> attr, pos |-> NoPos]
Subscript(value, slice) ==
    [type |-> "Subscript", value |-> value, slice |-> slice, pos |-> NoPos]
Keyword(arg, value) == [type |-> "keyword", arg |-> arg, value |-> value]

FunctionDef(name, decorator_list, body) ==
    [type |-> "FunctionDef", name |-> name, decorator_list |-> decorator_list,
     body |-> body, pos |-> NoPos]
Return(value) == [type |-> "Return", value |-> value, pos |-> NoPos]

\* ast.iter_child_nodes: the child nodes in the order of the class's _fields
Children(e) ==
    CASE e.type = "Call" -> <<e.func>> \o e.args \o e.keywords
      [] e.type = "keyword" -> <<e.value>>
      [] e.type = "Lambda" -> <<e.body>>
      [] e.type = "BinOp" -> <<e.left, e.right>>
      [] e.type = "IfExp" -> <<e.test, e.body, e.orelse>>
      [] e.type = "NamedExpr" -> <<e.target, e.value>>
      [] e.type = "Starred" -> <<e.value>>
      [] e.type = "Attribute" -> <<e.value>>
      [] e.type = "Subscript" -> <<e.value, e.slice>>
      [] e.type = "Return" -> <<e.value>>
      [] e.type = "FunctionDef" -> e.body \o e.decorator_list
      [] OTHER -> <<>>

\* the node with its child nodes replaced, field by field (what
\* NodeTransformer.generic_visit writes back)
Rebuild(e, kids) ==
    CASE e.type = "Call" ->
           [e EXCEPT !.func = kids[1],
                     !.args = SubSeq(kids, 2, 1 + Len(e.args)),
                     !.keywords = SubSeq(kids, 2 + Len(e.args), Len(kids))]
      [] e.type = "keyword" -> [e EXCEPT !.value = kids[1]]
      [] e.type = "Lambda" -> [e EXCEPT !.body = kids[1]]
      [] e.type = "BinOp" -> [e EXCEPT !.left = kids[1], !.right = kids[2]]
      [] e.type = "IfExp" ->
           [e EXCEPT !.test = kids[1], !.body = kids[2], !.orelse = kids[3]]
      [] e.type = "NamedExpr" -> [e EXCEPT !.target = kids[1], !.value = kids[2]]
      [] e.type = "Starred" -> [e EXCEPT !.value = kids[1]]
      [] e.type = "Attribute" -> [e EXCEPT !.value = kids[1]]
      [] e.type = "Subscript" -> [e EXCEPT !.value = kids[1], !.slice = kids[2]]
      [] e.type = "Return" -> [e EXCEPT !.value = kids[1]]
      [] e.type = "FunctionDef" ->
           [e EXCEPT !.body = SubSeq(kids, 1, Len(e.body)),
                     !.decorator_list = SubSeq(kids, Len(e.body) + 1, Len(kids))]
      [] OTHER -> e

HasPos(e) == "pos" \in DOMAIN e

----------------------------------------------------------------------------
(* The source text of the decorated function and its parse.  A program is  *)
(* written as a tree without positions; Locate gives every node the        *)
(* position its text has when the tree is printed from (line, column).     *)

Digits(n) == IF n < 10 THEN 1 ELSE IF n < 100 THEN 2 ELSE 3

RECURSIVE SumLen(_)
SumLen(names) ==
    IF names = <<>> THEN 0 ELSE Len(Head(names)) + SumLen(Tail(names))

\* does the sub-expression need parentheses in this role
Paren(e, role) ==
    CASE role \in {"func", "obj"} ->
           e.type \in {"Lambda", "BinOp", "IfExp", "NamedExpr"}
      [] role = "left" -> e.type \in {"Lambda", "IfExp", "NamedExpr"}
      [] role = "right" -> e.type \in {"Lambda", "IfExp", "NamedExpr", "BinOp"}
      [] OTHER -> FALSE

RECURSIVE Width(_)
RECURSIVE WidthList(_)
\* width of the text of a single-line expression
Width(e) ==
    LET WP(x, role) == Width(x) + (IF Paren(x, role) THEN 2 ELSE 0)
    IN CASE e.type = "Name" -> Len(e.id)
         [] e.type = "Constant" ->
              IF e.value.k = "int" THEN Digits(e.value.n) ELSE 4
         [] e.type = "Call" ->
              WP(e.func, "func") + 2 + WidthList(e.args \o e.keywords)
         [] e.type = "keyword" -> Len(e.arg) + 1 + Width(e.value)
         [] e.type = "Lambda" ->
              6 + (IF e.args = <<>> THEN 0
                   ELSE 1 + SumLen(e.args) + 2 * (Len(e.args) - 1))
                + 2 + Width(e.body)
         [] e.type = "BinOp" ->
              WP(e.left, "left") + 2 + Len(e.op) + WP(e.right, "right")
         [] e.type = "IfExp" ->
              Width(e.body) + 4 + Width(e.test) + 6 + Width(e.orelse)
         [] e.type = "NamedExpr" -> Width(e.target) + 4 + Width(e.value)
         [] e.type = "Starred" -> 1 + Width(e.value)
         [] e.type = "Attribute" -> WP(e.value, "obj") + 1 + Len(e.attr)
         [] e.type = "Subscript" ->
              WP(e.value, "obj") + 2 + Width(e.slice)
\* width of a comma separated list
WidthList(es) ==
    IF es = <<>> THEN 0
    ELSE Width(Head(es)) + (IF Len(es) > 1 THEN 2 ELSE 0) + WidthList(Tail(es))

RECURSIVE Locate(_, _, _, _)
RECURSIVE LocateList(_, _, _, _)
RECURSIVE LocateLines(_, _, _)
\* the node and its sub-nodes with the positions of their text, the text
\* starting at line l, column c, on a source line indented by ind
Locate(e, l, c, ind) ==
    LET Off(x, role) == IF Paren(x, role) THEN 1 ELSE 0
        WP(x, role) == Width(x) + 2 * Off(x, role)
        Sub(x, role, col) == Locate(x, l, col + Off(x, role), ind)
        Here(n) == [n EXCEPT !.pos = Pos(l, c, l, c + Width(e))]
    IN CASE e.type = "Call" /\ e.brk ->
              \* one argument per line, the closing parenthesis on its own
              [e EXCEPT !.func = Sub(e.func, "func", c),
                        !.args = LocateLines(e.args, l + 1, ind + 4),
                        !.pos = Pos(l, c, l + Len(e.args) + 1, ind + 1)]
         [] e.type = "Call" /\ ~e.brk ->
              LET a0 == c + WP(e.func, "func") + 1
                  all == LocateList(e.args \o e.keywords, l, a0, ind)
              IN Here([e EXCEPT !.func = Sub(e.func, "func", c),
                                !.args = SubSeq(all, 1, Len(e.args)),
                                !.keywords = SubSeq(all, Len(e.args) + 1, Len(all))])
         [] e.type = "keyword" ->
              [e EXCEPT !.value = Locate(e.value, l, c + Len(e.arg) + 1, ind)]
         [] e.type = "Lambda" ->
              Here([e EXCEPT !.body =
                       Locate(e.body, l, c + Width(e) - Width(e.body), ind)])
         [] e.type = "BinOp" ->
              Here([e EXCEPT
                  !.left = Sub(e.left, "left", c),
                  !.right = Sub(e.right, "right",
                                c + WP(e.left, "left") + 2 + Len(e.op))])
         [] e.type = "IfExp" ->
              Here([e EXCEPT
                  !.body = Locate(e.body, l, c, ind),
                  !.test = Locate(e.test, l, c + Width(e.body) + 4, ind),
                  !.orelse = Locate(e.orelse, l,
                                    c + Width(e.body) + 4 + Width(e.test) + 6, ind)])
         [] e.type = "NamedExpr" ->
              Here([e EXCEPT
                  !.target = Locate(e.target, l, c, ind),
                  !.value = Locate(e.value, l, c + Width(e.target) + 4, ind)])
         [] e.type = "Starred" ->
              Here([e EXCEPT !.value = Locate(e.value, l, c + 1, ind)])
         [] e.type = "Attribute" ->
              Here([e EXCEPT !.value = Sub(e.value, "obj", c)])
         [] e.type = "Subscript" ->
              Here([e EXCEPT
                  !.value = Sub(e.value, "obj", c),
                  !.slice = Locate(e.slice, l, c + WP(e.value, "obj") + 1, ind)])
         [] OTHER -> Here(e)
\* a comma separated list on one line
LocateList(es, l, c, ind) ==
    IF es = <<>> THEN <<>>
    ELSE <<Locate(Head(es), l, c, ind)>>
         \o LocateList(Tail(es), l, c + Width(Head(es)) + 2, ind)
\* one expression per line, from line l, each at column c
LocateLines(es, l, c) ==
    IF es = <<>> THEN <<>>
    ELSE <<Locate(Head(es), l, c, c)>> \o LocateLines(Tail(es), l + 1, c)

----------------------------------------------------------------------------
(* Exceptions: "" is no exception *)

NoExc == ""
AttributeError == "AttributeError: object has no attribute 'id'"
IndexError == "IndexError: list index out of range"
NoArgumentsError == "ValueError: This lambda has no arguments."
MultipleRefsError ==
    "ValueError: This lambda contains multiple references to the arg"

\* the absent node (None where a node is optional)
NoNode == [type |-> "None"]

----------------------------------------------------------------------------
(* _CountLambdaArgUses *)

RECURSIVE CountNames(_, _)
RECURSIVE CountNamesList(_, _)
\* visit_Name and NodeVisitor.generic_visit: every Name node with the id,
\* anywhere below the node
CountNames(e, arg_name) ==
    (IF e.type = "Name" /\ e.id = arg_name THEN 1 ELSE 0)
    + CountNamesList(Children(e), arg_name)
CountNamesList(es, arg_name) ==
    IF es = <<>> THEN 0
    ELSE CountNames(Head(es), arg_name) + CountNamesList(Tail(es), arg_name)

\* a counter that only tells whether the parameter is used
CountLambdaArgUsesCapped(lam) ==
    IF CountNames(lam.body, lam.args[1]) = 0 THEN 0 ELSE 1

\* _CountLambdaArgUses(_lambda).check(), for a lambda with a first parameter
CountLambdaArgUses(lam) == CountNames(lam.body, lam.args[1])

----------------------------------------------------------------------------
(* _LambdaExtractor *)

RECURSIVE ExtractVisit(_, _, _, _, _)
RECURSIVE ExtractVisitList(_, _, _, _, _)
\* NodeTransformer.visit with visit_Name: [node, count, exc], count being
\* self.visit_count
ExtractVisit(e, arg_name, value, subsequent_value, count) ==
    IF e.type = "Name"
    THEN IF e.id = arg_name
         THEN IF count = 0
              THEN [node |-> value, count |-> count + 1, exc |-> NoExc]
              ELSE IF subsequent_value # NoNode
                   THEN [node |-> subsequent_value, count |-> count, exc |-> NoExc]
                   ELSE [node |-> e, count |-> count, exc |-> MultipleRefsError]
         ELSE [node |-> e, count |-> count, exc |-> NoExc]
    ELSE LET r == ExtractVisitList(Children(e), arg_name, value,
                                   subsequent_value, count)
         IN [node |-> Rebuild(e, r.nodes), count |-> r.count, exc |-> r.exc]
ExtractVisitList(es, arg_name, value, subsequent_value, count) ==
    IF es = <<>> THEN [nodes |-> <<>>, count |-> count, exc |-> NoExc]
    ELSE LET h == ExtractVisit(Head(es), arg_name, value, subsequent_value, count)
         IN IF h.exc # NoExc
            THEN [nodes |-> es, count |-> h.count, exc |-> h.exc]
            ELSE LET t == ExtractVisitList(Tail(es), arg_name, value,
                                           subsequent_value, h.count)
                 IN [nodes |-> <<h.node>> \o t.nodes, count |-> t.count,
                     exc |-> t.exc]

\* _LambdaExtractor(_lambda, value, subsequent_value).extract_and_replace():
\* self.visit(self._lambda.body) rewrites the children of the body in place
\* and its return value is dropped; self._lambda.body is returned
extract_and_replace(lam, value, subsequent_value) ==
    LET r == ExtractVisit(lam.body, lam.args[1], value, subsequent_value, 0)
    IN [node |-> IF lam.body.type = "Name" THEN lam.body ELSE r.node,
        exc |-> r.exc]

copy_position(source, destination) ==
    [destination EXCEPT !.pos = source.pos]

----------------------------------------------------------------------------
(* _PipeTransformer *)

TempVar == "_pipe_temp_var"

\* the walrus branch: (_pipe_temp_var := value) for the first reference,
\* _pipe_temp_var for the later ones
WalrusStage(func, value) ==
    LET walrus == copy_position(func, NamedExpr(Name(TempVar, "Store"), value))
        temp_var == copy_position(func, Load(TempVar))
    IN extract_and_replace(func, walrus, temp_var)

\* WrapCall with the callee and the argument exchanged
WrapCallSwapped(func, value) ==
    [node |-> Call(value, <<func>>, <<>>), exc |-> NoExc]

\* the plain branch: Call(func, [value], [])
WrapCall(func, value) == [node |-> Call(func, <<value>>, <<>>), exc |-> NoExc]

\* one iteration of "for func in funcs": the new accumulated value
FoldStage(value, func) ==
    LET r == IF func.type = "Lambda"
             THEN IF func.args = <<>>
                  THEN [node |-> value, exc |-> IndexError]
                  ELSE LET arg_usage == CountLambdaArgUses(func)
                       IN IF arg_usage = 0
                          THEN [node |-> value, exc |-> NoArgumentsError]
                          ELSE IF arg_usage = 1
                               THEN extract_and_replace(func, value, NoNode)
                               ELSE WalrusStage(func, value)
             ELSE WrapCall(func, value)
    IN IF r.exc # NoExc THEN r
       ELSE [node |-> copy_position(func, r.node), exc |-> NoExc]

RECURSIVE FoldStages(_, _)
FoldStages(value, funcs) ==
    IF funcs = <<>> THEN [node |-> value, exc |-> NoExc]
    ELSE LET r == FoldStage(value, Head(funcs))
         IN IF r.exc # NoExc THEN r ELSE FoldStages(r.node, Tail(funcs))

\* the body of "if node.func.id == 'pipe'"
FoldPipe(node) ==
    IF node.args = <<>> THEN [node |-> node, exc |-> IndexError]
    ELSE FoldStages(node.args[1], Tail(node.args))

\* node.func.id == "pipe" (node.func has an id)
IsPipeCall(node) == node.func.id = "pipe"

RECURSIVE PipeVisit(_)
RECURSIVE PipeVisitList(_)
\* _PipeTransformer().visit(node): visit_Call for a Call, generic_visit
\* otherwise
PipeVisit(e) ==
    LET generic_visit ==
            LET r == PipeVisitList(Children(e))
            IN [node |-> IF r.exc = NoExc THEN Rebuild(e, r.nodes) ELSE e,
                exc |-> r.exc]
    IN IF e.type = "Call"
       THEN IF e.func.type # "Name" THEN [node |-> e, exc |-> AttributeError]
            ELSE IF IsPipeCall(e) THEN FoldPipe(e)
            ELSE generic_visit
       ELSE generic_visit
PipeVisitList(es) ==
    IF es = <<>> THEN [nodes |-> <<>>, exc |-> NoExc]
    ELSE LET h == PipeVisit(Head(es))
         IN IF h.exc # NoExc THEN [nodes |-> es, exc |-> h.exc]
            ELSE LET t == PipeVisitList(Tail(es))
                 IN [nodes |-> <<h.node>> \o t.nodes, exc |-> t.exc]

----------------------------------------------------------------------------
(* Running code.  An evaluation yields [exc, val, st]: the exception       *)
(* raised (or NoExc), the value, and the state st = [count, log, loc]:     *)
(* the side-effect counter and log of the helper functions, and the local  *)
(* variables of the running frame.  env = [closure, globals, bound]: the   *)
(* variables of the enclosing functions, the module globals, and the names *)
(* that are local to the running frame.                                    *)

\* pipe takes value and op0..op19
MaxOps == 20

NameError == "NameError: name is not defined"
UnboundLocalError == "UnboundLocalError: local variable referenced before assignment"
NotCallable == "TypeError: object is not callable"
ArgumentsError == "TypeError: wrong arguments"
OperandError == "TypeError: unsupported operand type(s)"
NoAttribute == "AttributeError: object has no such attribute"

Ok(v, st) == [exc |-> NoExc, val |-> v, st |-> st]
Raise(x, st) == [exc |-> x, val |-> NoneV, st |-> st]

\* "not op"
Falsy(v) ==
    \/ v.k = "none"
    \/ v.k = "int" /\ v.n = 0
    \/ v.k = "bool" /\ ~v.b
    \/ v.k \in {"list", "steps"} /\ v.items = <<>>

Builtins == ("len" :> FnV("len")) @@ ("abs" :> FnV("abs"))

\* LEGB name resolution of a Load
Lookup(id, env, st) ==
    IF id \in DOMAIN st.loc THEN Ok(st.loc[id], st)
    ELSE IF id \in env.bound THEN Raise(UnboundLocalError, st)
    ELSE IF id \in DOMAIN env.closure THEN Ok(env.closure[id], st)
    ELSE IF id \in DOMAIN env.globals THEN Ok(env.globals[id], st)
    ELSE IF id \in DOMAIN Builtins THEN Ok(Builtins[id], st)
    ELSE Raise(NameError, st)

RECURSIVE WalrusTargets(_)
RECURSIVE WalrusTargetsList(_)
\* the names a frame's code binds with := (a lambda is a frame of its own)
WalrusTargets(e) ==
    IF e.type = "Lambda" THEN {}
    ELSE (IF e.type = "NamedExpr" THEN {e.target.id} ELSE {})
         \cup WalrusTargetsList(Children(e))
WalrusTargetsList(es) ==
    IF es = <<>> THEN {}
    ELSE WalrusTargets(Head(es)) \cup WalrusTargetsList(Tail(es))

\* the module's helper functions, as the tests define them; g() and getf()
\* take no argument and leave a mark in the log
CallHelper(name, v, st) ==
    CASE name = "add_one" ->
           IF v.k = "int" THEN Ok(IntV(v.n + 1), st) ELSE Raise(OperandError, st)
      [] name = "times_twelve" ->
           IF v.k = "int" THEN Ok(IntV(v.n * 12), st) ELSE Raise(OperandError, st)
      [] name = "up" ->
           LET st2 == [st EXCEPT !.count = @ + 1, !.log = Append(@, "up")]
           IN IF v.k = "int" THEN Ok(IntV(v.n + 1), st2)
              ELSE Raise(OperandError, st2)
      [] name = "o.m" ->
           IF v.k = "int" THEN Ok(IntV(v.n * 2), st) ELSE Raise(OperandError, st)
      [] name = "abs" ->
           IF v.k = "int" THEN Ok(IntV(IF v.n < 0 THEN 0 - v.n ELSE v.n), st)
           ELSE Raise(OperandError, st)
      [] name = "len" ->
           IF v.k = "list" THEN Ok(IntV(Len(v.items)), st)
           ELSE Raise(OperandError, st)
      [] name = "deco" -> Ok(v, [st EXCEPT !.log = Append(@, "deco")])
      [] name = "decoarg" -> Ok(FnV("deco"), st)
      [] name = "getf" -> Ok(FnV("add_one"), [st EXCEPT !.log = Append(@, "getf")])
      [] name = "g" -> Ok(IntV(10), [st EXCEPT !.log = Append(@, "g")])
      [] OTHER -> Raise(NotCallable, st)

\* the number of leading operations that are not falsy: the branch of
\* pipe's if/elif chain that is taken
RECURSIVE Leading(_)
Leading(ops) ==
    IF ops = <<>> \/ Falsy(Head(ops)) THEN 0 ELSE 1 + Leading(Tail(ops))

RECURSIVE Eval(_, _, _)
RECURSIVE EvalList(_, _, _)
RECURSIVE Apply(_, _, _, _)
RECURSIVE ApplyChain(_, _, _)
RECURSIVE pipe(_, _, _)

\* op_n(...op_0(value)...)
ApplyChain(value, ops, st) ==
    IF ops = <<>> THEN Ok(value, st)
    ELSE LET r == Apply(Head(ops), <<value>>, <<>>, st)
         IN IF r.exc # NoExc THEN r ELSE ApplyChain(r.val, Tail(ops), r.st)

\* def pipe(value, op0=None, ..., op19=None, /)
pipe(args, kwnames, st) ==
    IF kwnames # <<>> \/ Len(args) < 1 \/ Len(args) > MaxOps + 1
    THEN Raise(ArgumentsError, st)
    ELSE LET ops == Tail(args)
         IN ApplyChain(args[1], SubSeq(ops, 1, Leading(ops)), st)

\* calling a value
Apply(f, args, kwnames, st) ==
    CASE f.k = "fn" /\ f.name = "pipe" -> pipe(args, kwnames, st)
      [] f.k = "fn" /\ f.name # "pipe" ->
           IF kwnames # <<>> \/ Len(args) # (IF f.name \in {"g", "getf"} THEN 0 ELSE 1)
           THEN Raise(ArgumentsError, st)
           ELSE CallHelper(f.name, IF args = <<>> THEN NoneV ELSE args[1], st)
      [] f.k = "steps" ->
           IF kwnames # <<>> \/ Len(args) # 1 THEN Raise(ArgumentsError, st)
           ELSE ApplyChain(args[1], f.items, st)
      [] f.k = "closure" ->
           IF kwnames # <<>> \/ Len(args) # Len(f.params)
           THEN Raise(ArgumentsError, st)
           ELSE LET frame == [i \in 1..Len(args) |-> args[i]]
                    loc == [n \in {f.params[i] : i \in 1..Len(args)} |->
                              args[CHOOSE i \in 1..Len(args) : f.params[i] = n]]
                    r == Eval(f.body,
                              [f.env EXCEPT !.bound =
                                  WalrusTargets(f.body) \cup DOMAIN loc],
                              [st EXCEPT !.loc = loc])
                IN [r EXCEPT !.st.loc = st.loc]
      [] OTHER -> Raise(NotCallable, st)

\* evaluating an expression
Eval(e, env, st) ==
    CASE e.type = "Constant" -> Ok(e.value, st)
      [] e.type = "Name" -> Lookup(e.id, env, st)
      [] e.type = "Lambda" ->
           Ok(ClosureV(e.args, e.body,
                       [env EXCEPT !.closure = st.loc @@ env.closure]), st)
      [] e.type = "BinOp" ->
           LET l == Eval(e.left, env, st)
           IN IF l.exc # NoExc THEN l
              ELSE LET r == Eval(e.right, env, l.st)
                   IN IF r.exc # NoExc THEN r
                      ELSE IF l.val.k # "int" \/ r.val.k # "int"
                           THEN Raise(OperandError, r.st)
                           ELSE Ok(IntV(IF e.op = "+" THEN l.val.n + r.val.n
                                        ELSE IF e.op = "*" THEN l.val.n * r.val.n
                                        ELSE l.val.n \div r.val.n), r.st)
      [] e.type = "IfExp" ->
           LET t == Eval(e.test, env, st)
           IN IF t.exc # NoExc THEN t
              ELSE IF Falsy(t.val) THEN Eval(e.orelse, env, t.st)
              ELSE Eval(e.body, env, t.st)
      [] e.type = "NamedExpr" ->
           LET v == Eval(e.value, env, st)
           IN IF v.exc # NoExc THEN v
              ELSE Ok(v.val, [v.st EXCEPT !.loc = (e.target.id :> v.val) @@ @])
      [] e.type = "Attribute" ->
           LET v == Eval(e.value, env, st)
           IN IF v.exc # NoExc THEN v
              ELSE IF v.val.k = "obj" /\ e.attr \in v.val.attrs
                   THEN Ok(FnV(IF e.attr = "m" THEN "o.m" ELSE e.attr), v.st)
                   ELSE Raise(NoAttribute, v.st)
      [] e.type = "Subscript" ->
           LET v == Eval(e.value, env, st)
           IN IF v.exc # NoExc THEN v
              ELSE LET i == Eval(e.slice, env, v.st)
                   IN IF i.exc # NoExc THEN i
                      ELSE IF v.val.k = "list" /\ i.val.k = "int"
                              /\ i.val.n + 1 \in DOMAIN v.val.items
                           THEN Ok(v.val.items[i.val.n + 1], i.st)
                           ELSE Raise(IndexError, i.st)
      [] e.type = "Call" ->
           LET f == Eval(e.func, env, st)
           IN IF f.exc # NoExc THEN f
              ELSE LET a == EvalList(e.args \o [i \in DOMAIN e.keywords |->
                                                   e.keywords[i].value],
                                     env, f.st)
                   IN IF a.exc # NoExc THEN a
                      ELSE Apply(f.val, a.val.items,
                                 [i \in DOMAIN e.keywords |-> e.keywords[i].arg],
                                 a.st)
      [] OTHER -> Raise(NotCallable, st)

\* evaluating call arguments left to right, a starred one unpacked; the
\* values of the keywords come last and are handed on as the last items
EvalList(es, env, st) ==
    IF es = <<>> THEN Ok(ListV(<<>>), st)
    ELSE LET x == Head(es)
             h == Eval(IF x.type = "Starred" THEN x.value ELSE x, env, st)
         IN IF h.exc # NoExc THEN h
            ELSE IF x.type = "Starred" /\ h.val.k # "list"
                 THEN Raise(OperandError, h.st)
                 ELSE LET t == EvalList(Tail(es), env, h.st)
                      IN IF t.exc # NoExc THEN t
                         ELSE Ok(ListV((IF x.type = "Starred" THEN h.val.items
                                        ELSE <<h.val>>) \o t.val.items), t.st)

----------------------------------------------------------------------------
(* fast_pipes *)

FunctionV(name, body, closure) ==
    [k |-> "function", name |-> name, body |-> body, closure |-> closure]

\* the definition as the parser places it when its text starts at line
\* line0 with the indentation ind0: one decorator per line, the def line,
\* and "return <expr>" one level deeper
LocateDef(p, line0, ind0) ==
    LET k == Len(p.decorators)
        decos == [i \in 1..k |-> Locate(p.decorators[i], line0 + i - 1,
                                        ind0 + 1, ind0)]
        value == Locate(p.body, line0 + k + 1, ind0 + 11, ind0 + 4)
        ret == [Return(value) EXCEPT !.pos =
                   Pos(line0 + k + 1, ind0 + 4, value.pos.end_lineno,
                       value.pos.end_col_offset)]
    IN [FunctionDef(p.name, decos, <<ret>>) EXCEPT !.pos =
           Pos(line0 + k, ind0, ret.pos.end_lineno, ret.pos.end_col_offset)]

\* parse(dedent(getsource(func))).body[0]
ParseSource(p) == LocateDef(p, 1, 0)

\* the tree with the positions the text has in its file
FileTree(p) == LocateDef(p, p.first_line, p.indent)

RECURSIVE increment_lineno(_, _)
\* ast.increment_lineno(tree, n)
increment_lineno(e, n) ==
    LET kids == Children(e)
        moved == Rebuild(e, [i \in DOMAIN kids |-> increment_lineno(kids[i], n)])
    IN IF HasPos(e)
       THEN [moved EXCEPT !.pos.lineno = @ + n, !.pos.end_lineno = @ + n]
       ELSE moved

RECURSIVE ShiftColumns(_, _)
\* for node in walk(tree): node.col_offset += source_indent
ShiftColumns(e, source_indent) ==
    LET kids == Children(e)
        moved == Rebuild(e, [i \in DOMAIN kids |->
                                ShiftColumns(kids[i], source_indent)])
    IN IF HasPos(e)
       THEN [moved EXCEPT !.pos.col_offset = @ + source_indent]
       ELSE moved

\* the number of leading whitespace characters of the source, plus one
SourceIndent(p) == p.indent + 1

\* lines 214-231: the tree with its positions fixed and the function renamed
PreparedTree(p) ==
    LET t == ShiftColumns(increment_lineno(ParseSource(p), p.first_line - 1),
                          SourceIndent(p))
    IN [t EXCEPT !.name = p.name \o "_fast_pipe"]

\* the condition of the list comprehension of lines 238-245, for a
\* decorator it can be evaluated on
KeepDecorator(d) ==
    \/ d.type = "Call" /\ d.func.id # "fast_pipes"
    \/ d.type = "Name" /\ d.id # "fast_pipes"

RECURSIVE FilterDecorators(_)
\* the list comprehension: d.func.id raises for a Call whose func has no id
FilterDecorators(ds) ==
    IF ds = <<>> THEN [list |-> <<>>, exc |-> NoExc]
    ELSE LET d == Head(ds)
         IN IF d.type = "Call" /\ d.func.type # "Name"
            THEN [list |-> <<>>, exc |-> AttributeError]
            ELSE LET t == FilterDecorators(Tail(ds))
                 IN [list |-> (IF KeepDecorator(d) THEN <<d>> ELSE <<>>) \o t.list,
                     exc |-> t.exc]

----------------------------------------------------------------------------
(* compile(tree, filename, mode="exec") *)

MissingFieldError == "TypeError: required field \"lineno\" missing from expr"
StarredError == "SyntaxError: can't use starred expression here"
PipeStarredError ==
    "SyntaxError: pipe can't take a starred expression as an argument when fast_pipes is used."

RECURSIVE MissingField(_)
\* some node lacks a required position attribute
MissingField(e) ==
    \/ HasPos(e) /\ (e.pos.lineno = Missing \/ e.pos.col_offset = Missing)
    \/ \E i \in DOMAIN Children(e) : MissingField(Children(e)[i])

RECURSIVE StarredLines(_, _)
\* the lines of the starred expressions that are not call arguments, in
\* the order the compiler meets them
StarredLines(e, allowed) ==
    LET kids == Children(e)
        Below[i \in 0..Len(kids)] ==
            IF i = 0 THEN <<>>
            ELSE Below[i - 1] \o
                 StarredLines(kids[i], e.type = "Call" /\ i > 1
                                       /\ i <= 1 + Len(e.args))
    IN (IF e.type = "Starred" /\ ~allowed THEN <<e.pos.lineno>> ELSE <<>>)
       \o Below[Len(kids)]

RECURSIVE PipeLines(_)
\* the lines of the file whose text contains "pipe("
PipeLines(e) ==
    (IF e.type = "Call" /\ e.func.type = "Name" /\ e.func.id = "pipe"
     THEN {e.func.pos.lineno} ELSE {})
    \cup UNION {PipeLines(Children(e)[i]) : i \in DOMAIN Children(e)}

RangeError == "ValueError: line, column is not a valid range"

RECURSIVE InvalidRange(_)
\* some node's position is not a range of text: it ends before it starts
InvalidRange(e) ==
    \/ /\ HasPos(e)
       /\ \/ e.pos.lineno > e.pos.end_lineno
          \/ /\ e.pos.lineno = e.pos.end_lineno
             /\ e.pos.col_offset > e.pos.end_col_offset
    \/ \E i \in DOMAIN Children(e) : InvalidRange(Children(e)[i])

\* e.text of a SyntaxError at this line contains "pipe("
TextHasPipe(p, lineno) == lineno \in PipeLines(FileTree(p))

\* lines 251-266: the exception compile raises, with the message changed
\* by the except clause; [exc, lineno].  An interpreter from 3.11 on checks
\* the position ranges of the tree before it generates code
Compile(t, p, validates) ==
    IF MissingField(t) THEN [exc |-> MissingFieldError, lineno |-> 0]
    ELSE IF validates /\ InvalidRange(t) THEN [exc |-> RangeError, lineno |-> 0]
    ELSE LET bad == StarredLines(t, FALSE)
         IN IF bad = <<>> THEN [exc |-> NoExc, lineno |-> 0]
            ELSE [exc |-> IF TextHasPipe(p, bad[1]) THEN PipeStarredError
                          ELSE StarredError,
                  lineno |-> bad[1]]

----------------------------------------------------------------------------
(* The decorated functions the model is run on *)

\* deepest nesting of fast_pipes invocations before RecursionError
RecursionLimit == 3
\* longest decorator list
MaxDecorators == 2

RecursionError == "RecursionError: maximum recursion depth exceeded"

\* the globals of the module the functions are written in
BaseGlobals ==
    [n \in {"fast_pipes", "fp", "pipe", "add_one", "times_twelve", "up",
            "deco", "decoarg", "getf", "g"} |->
        FnV(IF n = "fp" THEN "fast_pipes" ELSE n)]
    @@ ("o" :> ObjV("o", {"m"}))
    @@ ("ns" :> ObjV("ns", {"deco", "decoarg"}))
    @@ ("function_pipes" :> ObjV("function_pipes", {"fast_pipes", "pipe"}))
    @@ ("fl" :> ListV(<<FnV("add_one")>>))
    @@ ("flag" :> BoolV(FALSE))
    @@ ("empty" :> StepsV(<<>>))
    @@ ("steps" :> StepsV(<<FnV("up")>>))

X == Load("x")
PlainStages == {Load("add_one"), Load("times_twelve"), Load("up")}
OnceLambda == Lambda(<<"x">>, BinOp(X, "*", Num(2)))
IdentityLambda == Lambda(<<"x">>, X)
TwiceLambda == Lambda(<<"x">>, BinOp(BinOp(X, "+", X), "+", Num(2)))
ZeroLambda == Lambda(<<"x">>, Num(5))
ShadowLambda == Lambda(<<"x">>, Call(Lambda(<<"x">>, X), <<Num(7)>>, <<>>))
BranchLambda ==
    Lambda(<<"x">>, IfExp(Load("flag"), X, BinOp(X, "+", Num(1))))
LambdaStages == {OnceLambda, IdentityLambda, TwiceLambda, ZeroLambda,
                 ShadowLambda, BranchLambda}
StarredStage == Starred(Load("fl"))
OtherStages == {Constant(NoneV), StarredStage, Attribute(Load("o"), "m")}
Stages == PlainStages \cup LambdaStages \cup OtherStages

SeqsUpTo(S, n) == UNION {[1..k -> S] : k \in 0..n}

PipeCall(value, stages) == Call(Load("pipe"), <<value>> \o stages, <<>>)

Marker == Load("fast_pipes")

Program(decorators, body, first_line, indent, closure, module) ==
    [name |-> "f", decorators |-> decorators, body |-> body,
     first_line |-> first_line, indent |-> indent, closure |-> closure,
     module |-> module]

Simple(body) == Program(<<Marker>>, body, 1, 0, <<>>, <<>>)

\* return pipe(v, s1, ..., sn)
PipelinePrograms ==
    {Simple(PipeCall(Num(v), ss)) :
        v \in 0..MaxInit, ss \in SeqsUpTo(Stages, MaxStages)}

\* return callee(pipe(1, up)), at several places of a file
Callees == {Load("add_one"), Attribute(Load("o"), "m"),
            Call(Load("getf"), <<>>, <<>>), Subscript(Load("fl"), Num(0))}
WrappedPrograms ==
    {Program(<<Marker>>, Call(c, <<PipeCall(Num(1), <<Load("up")>>)>>, <<>>),
             l, i, <<>>, <<>>) :
        c \in Callees, l \in {1, 4}, i \in {0, 4}}

\* pipe calls in the arguments of a pipe call, keyword arguments, more
\* stages than pipe has parameters, a call written over several lines
ShapePrograms ==
    {Simple(PipeCall(PipeCall(Num(1), <<s>>), <<Load("up")>>)) :
        s \in {ZeroLambda, OnceLambda}}
    \cup {Simple(Call(Load("pipe"), <<Num(1)>>,
                      <<Keyword("op0", Load("add_one"))>>))}
    \cup {Simple(PipeCall(Num(0), [i \in 1..MaxOps + 1 |-> Load("up")]))}
    \cup {Program(<<Marker>>,
                  [PipeCall(Num(1), ss) EXCEPT !.brk = TRUE], l, 0, <<>>, <<>>) :
            ss \in {<<StarredStage>>, <<Load("up"), StarredStage>>,
                    <<Load("up")>>},
            l \in {1, 4}}

\* return pipe(y, add_one): y a module global, a variable of the enclosing
\* function, or both; return pipe(1, abs): a builtin
ScopePrograms ==
    {Program(<<Marker>>, PipeCall(Load("y"), <<Load("add_one")>>), 2, 4,
             ("y" :> IntV(7)), m) : m \in {<<>>, ("y" :> IntV(5))}}
    \cup {Program(<<Marker>>, PipeCall(Load("y"), <<Load("add_one")>>), 2, 0,
                  <<>>, ("y" :> IntV(5)))}
    \cup {Simple(PipeCall(Num(1), <<Load("abs")>>))}

\* expressions with side effects as the initial value, as a stage and in
\* the body of a lambda stage
EffectCall(name, args) == Call(Load(name), args, <<>>)
OrderPrograms ==
    {Simple(PipeCall(v, <<s>>)) :
        v \in {EffectCall("g", <<>>), EffectCall("up", <<Num(0)>>)},
        s \in {Load("up"), EffectCall("getf", <<>>),
               Lambda(<<"x">>, BinOp(EffectCall("g", <<>>), "+", X)),
               Lambda(<<"x">>, BinOp(X, "+", EffectCall("g", <<>>)))}}
    \cup {Simple(PipeCall(Num(1), <<Load("up"), EffectCall("getf", <<>>)>>))}

\* lambda stages that do not take exactly one parameter
ArityLambdas ==
    {Lambda(<<>>, Num(5)),
     Lambda(<<"x", "y">>, BinOp(X, "+", Load("y"))),
     Lambda(<<"x", "y">>, BinOp(X, "*", Num(2)))}
ArityPrograms ==
    {Simple(PipeCall(Num(1), ss)) :
        ss \in {<<s>> : s \in ArityLambdas}
               \cup {<<Load("up"), s>> : s \in ArityLambdas}}

\* return pipe(x, ...) and return pipe(y, ...), x and y module globals,
\* the stages lambdas of x, one of them with its reference to x inside a
\* lambda that binds y: lambda x: (lambda y: x + y)(3)
NestLambda ==
    Lambda(<<"x">>, Call(Lambda(<<"y">>, BinOp(X, "+", Load("y"))),
                         <<Num(3)>>, <<>>))
CapturePrograms ==
    {Program(<<Marker>>, PipeCall(Load(v), ss), 1, 0, <<>>,
             ("x" :> IntV(4)) @@ ("y" :> IntV(5))) :
        v \in {"x", "y"},
        ss \in {<<OnceLambda>>, <<NestLambda>>, <<OnceLambda, OnceLambda>>,
                <<OnceLambda, NestLambda>>}}

\* the ways a decorator is written
Markers == {Marker, Load("fp"), Attribute(Load("function_pipes"), "fast_pipes")}
OtherDecorators ==
    {Load("deco"), Call(Load("decoarg"), <<Num(1)>>, <<>>),
     Attribute(Load("ns"), "deco"),
     Call(Attribute(Load("ns"), "decoarg"), <<Num(1)>>, <<>>)}
IsMarker(d) == d \in Markers

\* decorator lists with one marker, the decorators below it being the ones
\* the rewritten definition is meant to keep
DecoratorLists ==
    {ds \in SeqsUpTo(Markers \cup OtherDecorators, MaxDecorators + 1) :
        /\ ds # <<>>
        /\ IsMarker(ds[1])
        /\ \A i \in 2..Len(ds) : ~IsMarker(ds[i])}
DecoratorPrograms ==
    {Program(ds, PipeCall(Num(1), <<Load("up")>>), 1, 0, <<>>, <<>>) :
        ds \in DecoratorLists}

\* decorators written above @fast_pipes, with at most one below it
KeptForms == {Load("deco"), Call(Load("decoarg"), <<Num(1)>>, <<>>)}
AboveLists ==
    {a \o <<Marker>> \o b :
        a \in SeqsUpTo(KeptForms, MaxDecorators) \ {<<>>},
        b \in SeqsUpTo(KeptForms, 1)}
AbovePrograms ==
    {Program(ds, PipeCall(Num(1), <<Load("up")>>), 1, 0, <<>>, <<>>) :
        ds \in AboveLists}

RECURSIVE AboveMarker(_)
\* the decorators of the definition statement that are applied after
\* fast_pipes has returned: those written above it
AboveMarker(ds) ==
    IF ds = <<>> \/ IsMarker(Head(ds)) THEN <<>>
    ELSE <<Head(ds)>> \o AboveMarker(Tail(ds))

\* functions that call pipe and are not decorated: the stages are unary
\* callables, functions and callable lists, up to one more than pipe takes
RuntimeStages == PlainStages \cup {Load("empty"), Load("steps")}
RuntimePrograms ==
    {Program(<<>>, PipeCall(Num(v), ss), 1, 0, <<>>, <<>>) :
        v \in 0..MaxInit, ss \in SeqsUpTo(RuntimeStages, MaxStages)}
    \cup {Program(<<>>, PipeCall(Num(0), [i \in 1..n |-> Load("up")]),
                  1, 0, <<>>, <<>>) : n \in 0..MaxOps + 1}
    \cup {Program(<<>>, PipeCall(Num(0), [i \in 1..MaxOps |->
                                            IF i = n THEN Load("empty")
                                            ELSE Load("up")]),
                  1, 0, <<>>, <<>>) : n \in {1, MaxOps}}

Programs == PipelinePrograms \cup WrappedPrograms \cup ShapePrograms
            \cup ScopePrograms \cup DecoratorPrograms \cup OrderPrograms
            \cup ArityPrograms \cup CapturePrograms \cup AbovePrograms

----------------------------------------------------------------------------
(* Calling a function object *)

NoEffects == [count |-> 0, log |-> <<>>]

\* fn(): the body run in a fresh frame
CallFunction(fn, globals, eff) ==
    LET r == Eval(fn.body,
                  [closure |-> fn.closure, globals |-> globals,
                   bound |-> WalrusTargets(fn.body)],
                  [count |-> eff.count, log |-> eff.log, loc |-> <<>>])
    IN [exc |-> r.exc, val |-> r.val,
        effects |-> [count |-> r.st.count, log |-> r.st.log]]

\* the function as the def statement creates it, before any decorator
OriginalFunction(p) ==
    FunctionV(p.name, FileTree(p).body[1].value, p.closure)

\* the function exec(code, ctx) creates: a module-level definition
CompiledFunction(t) == FunctionV(t.name, t.body[1].value, <<>>)

RECURSIVE ApplyDecorators(_, _, _)
\* the decorators applied bottom-up; reenter: one of them is fast_pipes
ApplyDecorators(dvals, fn, st) ==
    IF dvals = <<>> THEN [exc |-> NoExc, val |-> fn, st |-> st, reenter |-> FALSE]
    ELSE LET d == dvals[Len(dvals)]
         IN IF d = FnV("fast_pipes")
            THEN [exc |-> NoExc, val |-> fn, st |-> st, reenter |-> TRUE]
            ELSE LET r == Apply(d, <<fn>>, <<>>, st)
                 IN IF r.exc # NoExc
                    THEN [exc |-> r.exc, val |-> fn, st |-> r.st,
                          reenter |-> FALSE]
                    ELSE ApplyDecorators(SubSeq(dvals, 1, Len(dvals) - 1),
                                         r.val, r.st)

\* exec(code, ctx): the decorator expressions evaluated top-down, the
\* function created, the decorators applied
ExecDefinition(t, globals, eff) ==
    LET st0 == [count |-> eff.count, log |-> eff.log, loc |-> <<>>]
        ds == EvalList(t.decorator_list,
                       [closure |-> <<>>, globals |-> globals, bound |-> {}], st0)
    IN IF ds.exc # NoExc
       THEN [exc |-> ds.exc, val |-> NoneV, st |-> ds.st, reenter |-> FALSE]
       ELSE ApplyDecorators(ds.val.items, CompiledFunction(t), ds.st)

----------------------------------------------------------------------------
(* The state machine: one decoration, then one call of what it returned *)

NoResult == [exc |-> NoExc, val |-> NoneV]

\* fast_pipes is called by one thread only
NoSecondThread ==
    /\ prog2 = prog
    /\ pc2 = "idle"
    /\ tree2 = NoNode
    /\ returned2 = NoneV

Init ==
    /\ prog \in Programs
    /\ strict \in BOOLEAN
    /\ pc = "start"
    /\ tree = NoNode
    /\ ctx = prog.module @@ BaseGlobals
    /\ exc = NoExc
    /\ depth = 1
    /\ runs = 0
    /\ returned = NoneV
    /\ result = NoResult
    /\ effects = NoEffects
    /\ NoSecondThread

Fail(x) == pc' = "failed" /\ exc' = x

\* lines 214-231: source, parse, positions, new name
Prepare ==
    /\ pc = "start"
    /\ tree' = PreparedTree(prog)
    /\ runs' = runs + 1
    /\ pc' = "strip"
    /\ UNCHANGED <<other, prog, strict, ctx, exc, depth, returned, result, effects>>

\* lines 238-245
StripDecorators ==
    /\ pc = "strip"
    /\ LET r == FilterDecorators(tree.decorator_list)
       IN IF r.exc # NoExc
          THEN Fail(r.exc) /\ UNCHANGED tree
          ELSE /\ tree' = [tree EXCEPT !.decorator_list = r.list]
               /\ pc' = "transform"
               /\ UNCHANGED exc
    /\ UNCHANGED <<other, prog, strict, ctx, depth, runs, returned, result, effects>>

\* line 248
Transform ==
    /\ pc = "transform"
    /\ LET r == PipeVisit(tree)
       IN IF r.exc # NoExc
          THEN Fail(r.exc) /\ UNCHANGED tree
          ELSE tree' = r.node /\ pc' = "compile" /\ UNCHANGED exc
    /\ UNCHANGED <<other, prog, strict, ctx, depth, runs, returned, result, effects>>

\* lines 251-266
CompileTree ==
    /\ pc = "compile"
    /\ LET c == Compile(tree, prog, strict)
       IN IF c.exc # NoExc THEN Fail(c.exc)
          ELSE pc' = "exec" /\ UNCHANGED exc
    /\ UNCHANGED <<other, prog, strict, tree, ctx, depth, runs, returned, result, effects>>

\* line 270; a kept decorator that is fast_pipes starts the decoration of
\* the new definition, inside this one
ExecDef ==
    /\ pc = "exec"
    /\ LET r == ExecDefinition(tree, ctx, effects)
       IN /\ effects' = [count |-> r.st.count, log |-> r.st.log]
          /\ IF r.exc # NoExc
             THEN Fail(r.exc) /\ UNCHANGED <<ctx, depth>>
             ELSE IF r.reenter
                  THEN IF depth >= RecursionLimit
                       THEN Fail(RecursionError) /\ UNCHANGED <<ctx, depth>>
                       ELSE /\ depth' = depth + 1
                            /\ pc' = "start"
                            /\ UNCHANGED <<ctx, exc>>
                  ELSE /\ ctx' = (tree.name :> r.val) @@ ctx
                       /\ pc' = "return"
                       /\ UNCHANGED <<exc, depth>>
    /\ UNCHANGED <<other, prog, strict, tree, runs, returned, result>>

\* line 273
ReturnFunction ==
    /\ pc = "return"
    /\ returned' = ctx[tree.name]
    /\ pc' = "bound"
    /\ UNCHANGED <<other, prog, strict, tree, ctx, exc, depth, runs, result, effects>>

\* the decorated definition statement goes on after fast_pipes returned:
\* the decorators above @fast_pipes are applied, bottom-up, to the value
\* it returned, and the result is bound to the function's name
DecorateReturned(p, fn, globals, eff) ==
    LET st0 == [count |-> eff.count, log |-> eff.log, loc |-> <<>>]
        ds == EvalList(AboveMarker(p.decorators),
                       [closure |-> <<>>, globals |-> globals, bound |-> {}], st0)
    IN IF ds.exc # NoExc
       THEN [exc |-> ds.exc, val |-> NoneV, st |-> ds.st, reenter |-> FALSE]
       ELSE ApplyDecorators(ds.val.items, fn, ds.st)

FinishDecoration ==
    /\ pc = "bound"
    /\ \E r \in {DecorateReturned(prog, returned, ctx, effects)} :
          /\ effects' = [count |-> r.st.count, log |-> r.st.log]
          /\ IF r.exc # NoExc
             THEN Fail(r.exc) /\ UNCHANGED ctx
             ELSE /\ ctx' = (prog.name :> r.val) @@ ctx
                  /\ pc' = "defined"
                  /\ UNCHANGED exc
    /\ UNCHANGED <<other, prog, strict, tree, depth, runs, returned, result>>

\* the caller calls the function bound to the name
CallReturned ==
    /\ pc = "defined"
    /\ LET r == CallFunction(ctx[prog.name], ctx, effects)
       IN /\ result' = [exc |-> r.exc, val |-> r.val]
          /\ effects' = r.effects
    /\ pc' = "called"
    /\ UNCHANGED <<other, prog, strict, tree, ctx, exc, depth, runs, returned>>

Next ==
    \/ Prepare
    \/ StripDecorators
    \/ Transform
    \/ CompileTree
    \/ ExecDef
    \/ ReturnFunction
    \/ FinishDecoration
    \/ CallReturned

Spec == Init /\ [][Next]_vars

\* Two threads decorate two functions of one module at the same time.  The
\* work of lines 214-266 is local to each call; exec(code, ctx) and
\* ctx[tree.body[0].name] act on the globals both calls share.

\* methods (or module-level functions) that return pipe(v, s), at two
\* places of one file, under the same name or under different names
ThreadBodies == {PipeCall(Num(v), <<s>>) : v \in 0..MaxInit, s \in PlainStages}
ThreadPrograms(name, first_line) ==
    {[Program(<<Marker>>, b, first_line, i, <<>>, <<>>) EXCEPT !.name = name] :
        b \in ThreadBodies, i \in {0, 4}}

InitThreads ==
    /\ prog \in ThreadPrograms("f", 2)
    /\ prog2 \in ThreadPrograms("f", 6) \cup ThreadPrograms("g", 6)
    /\ prog2.indent = prog.indent
    /\ strict = FALSE
    /\ pc = "start"
    /\ pc2 = "start"
    /\ tree = NoNode
    /\ tree2 = NoNode
    /\ ctx = BaseGlobals
    /\ exc = NoExc
    /\ depth = 1
    /\ runs = 0
    /\ returned = NoneV
    /\ returned2 = NoneV
    /\ result = NoResult
    /\ effects = NoEffects

\* lines 214-231 in the second thread
Prepare2 ==
    /\ pc2 = "start"
    /\ tree2' = PreparedTree(prog2)
    /\ pc2' = "strip"
    /\ UNCHANGED <<prog, strict, pc, tree, ctx, exc, depth, runs, returned,
                   result, effects, prog2, returned2>>

\* lines 238-245 in the second thread
StripDecorators2 ==
    /\ pc2 = "strip"
    /\ \E r \in {FilterDecorators(tree2.decorator_list)} :
          IF r.exc # NoExc
          THEN pc2' = "failed" /\ UNCHANGED tree2
          ELSE /\ tree2' = [tree2 EXCEPT !.decorator_list = r.list]
               /\ pc2' = "transform"
    /\ UNCHANGED <<prog, strict, pc, tree, ctx, exc, depth, runs, returned,
                   result, effects, prog2, returned2>>

\* line 248 in the second thread
Transform2 ==
    /\ pc2 = "transform"
    /\ \E r \in {PipeVisit(tree2)} :
          IF r.exc # NoExc
          THEN pc2' = "failed" /\ UNCHANGED tree2
          ELSE tree2' = r.node /\ pc2' = "compile"
    /\ UNCHANGED <<prog, strict, pc, tree, ctx, exc, depth, runs, returned,
                   result, effects, prog2, returned2>>

\* lines 251-266 in the second thread
CompileTree2 ==
    /\ pc2 = "compile"
    /\ pc2' = IF Compile(tree2, prog2, strict).exc # NoExc THEN "failed"
              ELSE "exec"
    /\ UNCHANGED <<prog, strict, pc, tree, ctx, exc, depth, runs, returned,
                   result, effects, prog2, tree2, returned2>>

\* line 270 in the second thread
ExecDef2 ==
    /\ pc2 = "exec"
    /\ \E r \in {ExecDefinition(tree2, ctx, effects)} :
          /\ effects' = [count |-> r.st.count, log |-> r.st.log]
          /\ IF r.exc # NoExc \/ r.reenter
             THEN pc2' = "failed" /\ UNCHANGED ctx
             ELSE ctx' = (tree2.name :> r.val) @@ ctx /\ pc2' = "return"
    /\ UNCHANGED <<prog, strict, pc, tree, exc, depth, runs, returned, result,
                   prog2, tree2, returned2>>

\* line 273 in the second thread
ReturnFunction2 ==
    /\ pc2 = "return"
    /\ returned2' = ctx[tree2.name]
    /\ pc2' = "bound"
    /\ UNCHANGED <<prog, strict, pc, tree, ctx, exc, depth, runs, returned,
                   result, effects, prog2, tree2>>

NextThreads ==
    \/ Prepare
    \/ StripDecorators
    \/ Transform
    \/ CompileTree
    \/ ExecDef
    \/ ReturnFunction
    \/ Prepare2
    \/ StripDecorators2
    \/ Transform2
    \/ CompileTree2
    \/ ExecDef2
    \/ ReturnFunction2

SpecThreads == InitThreads /\ [][NextThreads]_vars

\* a function that is not decorated: the def statement binds it as it is
\* written and the caller calls it, pipe being the runtime pipe
InitPipe ==
    /\ prog \in RuntimePrograms
    /\ strict = FALSE
    /\ pc = "defined"
    /\ tree = NoNode
    /\ ctx = (prog.name :> OriginalFunction(prog)) @@ prog.module @@ BaseGlobals
    /\ exc = NoExc
    /\ depth = 1
    /\ runs = 0
    /\ returned = NoneV
    /\ result = NoResult
    /\ effects = NoEffects
    /\ NoSecondThread

SpecPipe == InitPipe /\ [][CallReturned]_vars

----------------------------------------------------------------------------
(* What the claims compare the rewritten function with *)

\* the state a first call starts from
FreshState == [count |-> 0, log |-> <<>>, loc |-> <<>>]

\* the environment the original function runs in
OriginalEnv(p) ==
    [closure |-> p.closure, globals |-> p.module @@ BaseGlobals, bound |-> {}]

\* fn(...f1(v)...): the stage expressions of a pipe call evaluated as
\* ordinary values and applied one after another, as raw_version does
SequentialResult(p) ==
    LET a == EvalList(p.body.args, OriginalEnv(p), FreshState)
    IN IF a.exc # NoExc THEN a
       ELSE ApplyChain(a.val.items[1], Tail(a.val.items), a.st)

\* the function called as written, pipe being the runtime pipe
OriginalResult(p) == CallFunction(OriginalFunction(p), p.module @@ BaseGlobals,
                                  NoEffects)

SameResult(r) ==
    /\ result.exc = r.exc
    /\ result.val = r.val
    /\ effects.count = r.st.count

RECURSIVE ParamRefs(_, _)
RECURSIVE ParamRefsList(_, _)
\* the references to the variable made in the expression: a nested lambda
\* that declares the name again hides it
ParamRefs(e, name) ==
    IF e.type = "Lambda" /\ \E i \in DOMAIN e.args : e.args[i] = name THEN 0
    ELSE (IF e.type = "Name" /\ e.id = name THEN 1 ELSE 0)
         + ParamRefsList(Children(e), name)
ParamRefsList(es, name) ==
    IF es = <<>> THEN 0
    ELSE ParamRefs(Head(es), name) + ParamRefsList(Tail(es), name)

\* the references a single-parameter lambda makes to its parameter
LambdaRefs(lam) == ParamRefs(lam.body, lam.args[1])

IsPipe(e) == e.type = "Call" /\ e.func = Load("pipe")
IsFunctionName(e) == e.type = "Name" /\ e.id \in {"add_one", "times_twelve", "up", "abs"}
IsLambda1(e) == e.type = "Lambda" /\ Len(e.args) = 1
StagesOf(e) == Tail(e.args)

\* @fast_pipes alone on a function that returns pipe(v, ...), v a literal
DecoratedPipeline(p) ==
    /\ p.decorators = <<Marker>>
    /\ IsPipe(p.body)
    /\ p.body.keywords = <<>>
    /\ p.body.args # <<>>
    /\ p.body.args[1].type = "Constant"

AfterTransform ==
    pc \in {"compile", "exec", "return", "bound", "defined", "called"}
AfterCompile == pc \in {"exec", "return", "bound", "defined", "called"}

----------------------------------------------------------------------------
(* C1 *)

PlainPipeline(p) ==
    /\ DecoratedPipeline(p)
    /\ \A i \in DOMAIN StagesOf(p.body) : IsFunctionName(StagesOf(p.body)[i])

----------------------------------------------------------------------------
(* C2 *)

\* a pipeline of named functions and lambdas that reference their
\* parameter once, with at least one such lambda
OnceLambdaPipeline(p) ==
    /\ DecoratedPipeline(p)
    /\ \A i \in DOMAIN StagesOf(p.body) :
          LET s == StagesOf(p.body)[i]
          IN IsFunctionName(s) \/ (IsLambda1(s) /\ LambdaRefs(s) = 1)
    /\ \E i \in DOMAIN StagesOf(p.body) : IsLambda1(StagesOf(p.body)[i])

\* C2: a pipeline with a single-parameter lambda stage whose body
\* references the parameter exactly once, whatever the shape of the body,
\* is rewritten into a function that returns what calling the lambda as an
\* ordinary function on the value of the preceding stages returns
C2_OnceLambdaEquiv ==
    OnceLambdaPipeline(prog) =>
        /\ pc # "failed"
        /\ pc = "called" => SameResult(SequentialResult(prog))

----------------------------------------------------------------------------
(* C3 *)

\* a pipeline of named functions and one or more lambdas that reference
\* their parameter twice or more
MultiLambdaPipeline(p) ==
    /\ DecoratedPipeline(p)
    /\ \A i \in DOMAIN StagesOf(p.body) :
          LET s == StagesOf(p.body)[i]
          IN IsFunctionName(s) \/ (IsLambda1(s) /\ LambdaRefs(s) >= 2)
    /\ \E i \in DOMAIN StagesOf(p.body) : IsLambda1(StagesOf(p.body)[i])

\* C3: with a lambda stage that references its parameter two or more
\* times the rewritten function compiles, each call runs the preceding
\* stages exactly once (the counter of an upstream stage goes up as in the
\* sequential application) and the result is the lambda applied to that
\* value
C3_MultiLambdaOnce ==
    MultiLambdaPipeline(prog) =>
        /\ pc # "failed"
        /\ pc = "called" => SameResult(SequentialResult(prog))

----------------------------------------------------------------------------
(* C4 *)

RECURSIVE HasZeroUseStage(_)
\* some pipe call below the node has a single-parameter lambda stage whose
\* body makes no reference to the parameter
HasZeroUseStage(e) ==
    \/ /\ IsPipe(e)
       /\ \E i \in DOMAIN e.args :
             i > 1 /\ IsLambda1(e.args[i]) /\ LambdaRefs(e.args[i]) = 0
    \/ \E i \in DOMAIN Children(e) : HasZeroUseStage(Children(e)[i])

\* C4: when a pipe call of the decorated function has a lambda stage whose
\* body never references its parameter, the decoration raises
\* ValueError("This lambda has no arguments."): nothing is compiled, bound
\* or called
C4_ZeroUseRejected ==
    (prog.decorators = <<Marker>> /\ HasZeroUseStage(prog.body)) =>
        /\ ~AfterCompile
        /\ pc \in {"compile", "failed"} => exc = NoArgumentsError

----------------------------------------------------------------------------
(* C5 *)

\* a pipe call whose stages are named functions and at least one starred
\* expression
StarredPipeline(p) ==
    /\ DecoratedPipeline(p)
    /\ \A i \in DOMAIN StagesOf(p.body) :
          LET s == StagesOf(p.body)[i]
          IN IsFunctionName(s) \/ s.type = "Starred"
    /\ \E i \in DOMAIN StagesOf(p.body) : StagesOf(p.body)[i].type = "Starred"

\* C5: a pipe call with a starred stage makes the decoration fail with the
\* SyntaxError "pipe can't take a starred expression as an argument when
\* fast_pipes is used."; the function is never bound or called
C5_StarredRejected ==
    StarredPipeline(prog) =>
        /\ ~AfterCompile
        /\ pc = "failed" => exc = PipeStarredError

----------------------------------------------------------------------------
(* C6 *)

\* pipe(v, s1, ..., sn, k=...) with stages that are named functions or None
CallShape(p) ==
    /\ p.decorators = <<Marker>>
    /\ IsPipe(p.body)
    /\ p.body.args # <<>>
    /\ p.body.args[1].type = "Constant"
    /\ \A i \in DOMAIN StagesOf(p.body) :
          LET s == StagesOf(p.body)[i]
          IN IsFunctionName(s) \/ s = Constant(NoneV)

\* both return the same value or both fail
SameOutcome(a, b) ==
    \/ a.exc = NoExc /\ b.exc = NoExc /\ a.val = b.val
    \/ a.exc # NoExc /\ b.exc # NoExc

\* C6: for every call shape pipe(v, s1, ..., sn) (any number of positional
\* stages, stages that are None, keyword arguments) the rewritten call site
\* and the runtime pipe call have the same outcome
C6_SameAsRuntimePipe ==
    CallShape(prog) =>
        /\ pc = "failed" => OriginalResult(prog).exc # NoExc
        /\ pc = "called" => SameOutcome(result, OriginalResult(prog))

----------------------------------------------------------------------------
(* C7 *)

RECURSIVE FreeNames(_, _)
\* the names the expression reads that no enclosing lambda of it binds
FreeNames(e, bound) ==
    IF e.type = "Name" THEN (IF e.id \in bound THEN {} ELSE {e.id})
    ELSE LET b == IF e.type = "Lambda"
                  THEN bound \cup {e.args[i] : i \in DOMAIN e.args}
                  ELSE bound
         IN UNION {FreeNames(Children(e)[i], b) : i \in DOMAIN Children(e)}

\* what the name resolves to in a function with these cells and globals
Resolve(name, closure, globals) ==
    LET r == Lookup(name, [closure |-> closure, globals |-> globals,
                           bound |-> {}], FreshState)
    IN [exc |-> r.exc, val |-> r.val]

\* C7: every free variable of the decorated function (a module global, a
\* builtin, a variable of an enclosing function) resolves in the function
\* fast_pipes returns to the binding it has in the original function
C7_SameBindings ==
    (prog.decorators = <<Marker>> /\ pc \in {"bound", "defined", "called"}) =>
        \A n \in FreeNames(prog.body, {}) :
            Resolve(n, returned.closure, ctx)
                = Resolve(n, prog.closure, prog.module @@ BaseGlobals)

----------------------------------------------------------------------------
(* C8 *)

RECURSIVE PipeCalls(_)
\* the number of calls of the name pipe below the node
PipeCalls(e) ==
    LET kids == Children(e)
        Below[i \in 0..Len(kids)] ==
            IF i = 0 THEN 0 ELSE Below[i - 1] + PipeCalls(kids[i])
    IN (IF e.type = "Call" /\ e.func.type = "Name" /\ e.func.id = "pipe"
        THEN 1 ELSE 0) + Below[Len(kids)]

\* return callee(pipe(...)), the callee not being the name pipe
WrappedPipe(p) ==
    /\ p.decorators = <<Marker>>
    /\ p.body.type = "Call"
    /\ p.body.func # Load("pipe")
    /\ \E i \in DOMAIN p.body.args : IsPipe(p.body.args[i])

\* C8: a call whose callee is not the name pipe, whatever the form of the
\* callee, does not make the transformation fail, is left in place with
\* its callee, and the pipe calls in its arguments are folded
C8_OtherCallsUntouched ==
    WrappedPipe(prog) =>
        /\ pc # "failed"
        /\ AfterTransform =>
              /\ tree.body[1].value.type = "Call"
              /\ tree.body[1].value.func = PreparedTree(prog).body[1].value.func
              /\ PipeCalls(tree) = 0

----------------------------------------------------------------------------
(* C9 *)

RECURSIVE WithoutMarkers(_, _)
\* the located decorators whose source is not a marker, in their order
WithoutMarkers(located, written) ==
    IF located = <<>> THEN <<>>
    ELSE (IF IsMarker(Head(written)) THEN <<>> ELSE <<Head(located)>>)
         \o WithoutMarkers(Tail(located), Tail(written))

\* C9: the decorator list of the rewritten definition is the original list
\* without the entries that denote the marker, every other decorator, of
\* any expression form, kept in its order
C9_OnlyMarkerRemoved ==
    pc \notin {"start", "strip"} =>
        tree.decorator_list
            = WithoutMarkers(PreparedTree(prog).decorator_list, prog.decorators)

----------------------------------------------------------------------------
(* C10 *)

\* C10: one decoration runs the transformation exactly once, however the
\* marker is written: executing the recompiled definition does not start
\* it again, nor does calling the returned function
C10_TransformedOnce ==
    /\ runs <= 1
    /\ pc # "start" => runs = 1
    /\ exc # RecursionError

----------------------------------------------------------------------------
(* C11 *)

\* C11: after the position adjustment of lines 223-228 every node of the
\* tree has the line numbers and the column offsets, start and end, that
\* its text has in the file, whatever the first line and the indentation
\* of the decorated function
C11_PositionsMatchFile ==
    pc = "strip" => [tree EXCEPT !.name = prog.name] = FileTree(prog)

----------------------------------------------------------------------------
(* C12 *)

RECURSIVE HasUnsetPosition(_)
\* some node below has one of its four position fields unset
HasUnsetPosition(e) ==
    \/ /\ HasPos(e)
       /\ \E f \in DOMAIN e.pos : e.pos[f] = Missing
    \/ \E i \in DOMAIN Children(e) : HasUnsetPosition(Children(e)[i])

\* C12: every node the transformer builds while it folds a pipe call (the
\* wrapping call, the := expression, its target name, the reference to
\* the hidden name) has its four position fields set: no node of the tree
\* handed to compile() has a position field unset
C12_NewNodesPositioned ==
    pc = "compile" => ~HasUnsetPosition(tree)

----------------------------------------------------------------------------
(* C13 *)

\* C13: the rewritten function produces the side effects of the initial
\* value expression, of the stage expressions, of the lambda bodies and of
\* the stage applications in the order the pipe call as written produces
\* them: when both run to the end, the log of effects is the same
C13_EffectsInOrder ==
    (/\ prog.decorators = <<Marker>>
     /\ IsPipe(prog.body)
     /\ pc = "called"
     /\ result.exc = NoExc
     /\ OriginalResult(prog).exc = NoExc) =>
        effects.log = OriginalResult(prog).effects.log

----------------------------------------------------------------------------
(* C14 *)

\* pipe(v, f1, ..., fn) with 0 to 20 stages, each the name of a unary
\* callable
CallablesPipeline(p) ==
    /\ IsPipe(p.body)
    /\ p.body.keywords = <<>>
    /\ Len(StagesOf(p.body)) <= MaxOps
    /\ \A i \in DOMAIN StagesOf(p.body) : StagesOf(p.body)[i] \in RuntimeStages

\* C14: for every value v and every list of 0 to 20 unary callables the
\* runtime pipe(v, f1, ..., fn) returns what applying f1, ..., fn to v one
\* after another returns (arbitary_length_pipe), with the same side
\* effects: the branch taken depends on the number of stages only
C14_PipeIsFold ==
    (CallablesPipeline(prog) /\ pc = "called") =>
        SameResult(SequentialResult(prog))

----------------------------------------------------------------------------
(* C15 *)

\* return pipe(v, lambda p: body), v a literal, the body referring to p
LambdaPipeline(p) ==
    /\ DecoratedPipeline(p)
    /\ Len(StagesOf(p.body)) = 1
    /\ IsLambda1(StagesOf(p.body)[1])
    /\ CountLambdaArgUses(StagesOf(p.body)[1]) >= 1

RECURSIVE Occurs(_, _)
\* the number of nodes below e that are n, whatever their position
Occurs(e, n) ==
    LET kids == Children(e)
        Below[i \in 0..Len(kids)] ==
            IF i = 0 THEN 0 ELSE Below[i - 1] + Occurs(kids[i], n)
    IN (IF HasPos(e) /\ [e EXCEPT !.pos = NoPos] = n THEN 1 ELSE 0)
       + Below[Len(kids)]

\* C15: extract_and_replace returns the body of the lambda with no
\* reference to the parameter left in it, the replacement expression
\* standing where the first reference was, for every shape of the body,
\* the body that is the parameter alone included
C15_NoParameterLeft ==
    (LambdaPipeline(prog) /\ pc = "compile") =>
        /\ CountNames(tree.body[1].value, StagesOf(prog.body)[1].args[1]) = 0
        /\ Occurs(tree.body[1].value, prog.body.args[1]) >= 1

----------------------------------------------------------------------------
(* C16 *)

\* C16: for every single-parameter lambda stage the transformer folded,
\* the count of _CountLambdaArgUses is the number of references the body
\* makes to the parameter at the lambda's own scope level: a reference in
\* a nested lambda that declares the name again is not counted
C16_CountsOwnScope ==
    (prog.decorators = <<Marker>> /\ IsPipe(prog.body) /\ pc = "compile") =>
        \A i \in DOMAIN prog.body.args :
            (i > 1 /\ IsLambda1(prog.body.args[i])) =>
                CountLambdaArgUses(prog.body.args[i]) = LambdaRefs(prog.body.args[i])

----------------------------------------------------------------------------
(* C17 *)

\* C17: the transformer never makes the extractor fail: the branch it
\* takes on the counter's result always fits the references the extractor
\* meets, so no decoration ends with ValueError("This lambda contains
\* multiple references to the arg")
C17_NoMultipleRefsError == exc # MultipleRefsError

\* a pipeline with a lambda that uses its parameter once and a lambda that
\* uses it more than once went through the transformer
C17_Witness ==
    /\ DecoratedPipeline(prog)
    /\ \E i \in DOMAIN StagesOf(prog.body) :
          LET s == StagesOf(prog.body)[i]
          IN IsLambda1(s) /\ CountLambdaArgUses(s) = 1
    /\ \E i \in DOMAIN StagesOf(prog.body) :
          LET s == StagesOf(prog.body)[i]
          IN IsLambda1(s) /\ CountLambdaArgUses(s) >= 2
    /\ pc = "compile"
    /\ exc = NoExc

----------------------------------------------------------------------------
(* C18 *)

\* return pipe(v, ...) with a lambda stage that does not take exactly one
\* parameter
ArityPipeline(p) ==
    /\ DecoratedPipeline(p)
    /\ \E i \in DOMAIN StagesOf(p.body) :
          LET s == StagesOf(p.body)[i]
          IN s.type = "Lambda" /\ Len(s.args) # 1

\* C18: a lambda stage with no parameter or with more than one is
\* rejected while the tree is transformed: no folded expression, with the
\* first parameter substituted and the others left as free names, is
\* handed to compile()
C18_OddArityRejected ==
    ArityPipeline(prog) => ~AfterTransform

----------------------------------------------------------------------------
(* C19 *)

\* return pipe(name, ...), every stage a one-parameter lambda that refers
\* once to its parameter, in an expression of its own
SplicePipeline(p) ==
    /\ p.decorators = <<Marker>>
    /\ IsPipe(p.body)
    /\ p.body.keywords = <<>>
    /\ p.body.args # <<>>
    /\ p.body.args[1].type = "Name"
    /\ StagesOf(p.body) # <<>>
    /\ \A i \in DOMAIN StagesOf(p.body) :
          LET s == StagesOf(p.body)[i]
          IN IsLambda1(s) /\ LambdaRefs(s) = 1 /\ s.body.type # "Name"

\* C19: splicing the accumulated expression into a lambda body captures
\* nothing: the free names of the accumulated expression are free names
\* of the folded expression (a name equal to the parameter name included,
\* a parameter reference under a nested lambda included), and the
\* rewritten function returns what the stages applied in turn return
C19_CaptureSafe ==
    SplicePipeline(prog) =>
        /\ pc = "compile" =>
              FreeNames(prog.body.args[1], {})
                  \subseteq FreeNames(tree.body[1].value, {})
        /\ pc = "called" => SameResult(SequentialResult(prog))

----------------------------------------------------------------------------
(* C20 *)

\* C20: when two threads apply fast_pipes at the same time to two
\* functions of one module, whatever their names and however the
\* executions of the two definitions and the two look-ups interleave,
\* each call returns the function compiled from its own tree
C20_EachReturnsOwn ==
    /\ pc = "bound" => returned = CompiledFunction(tree)
    /\ pc2 = "bound" => returned2 = CompiledFunction(tree2)

----------------------------------------------------------------------------
(* C21 *)

\* return pipe(v, ...), the stages named functions and one-parameter
\* lambdas, one of them at least folded with the hidden name
HiddenNamePipeline(p) ==
    /\ DecoratedPipeline(p)
    /\ \A i \in DOMAIN StagesOf(p.body) :
          LET s == StagesOf(p.body)[i]
          IN IsFunctionName(s)
             \/ (IsLambda1(s) /\ LambdaRefs(s) >= 1 /\ s.body.type # "Name")
    /\ \E i \in DOMAIN StagesOf(p.body) :
          LET s == StagesOf(p.body)[i]
          IN IsLambda1(s) /\ CountLambdaArgUses(s) >= 2

\* C21: the hidden name _pipe_temp_var belongs to the substitution that
\* made it: the rewritten function is created, and wherever a reference
\* to the hidden name is evaluated the binding expression of its stage
\* has bound it before (no reference finds the name unbound)
C21_TempVarScoped ==
    HiddenNamePipeline(prog) =>
        /\ pc # "failed"
        /\ pc = "compile" =>
              CallFunction(CompiledFunction(tree), ctx, NoEffects).exc
                  # UnboundLocalError


----------------------------------------------------------------------------
(* C22: decorators other than fast_pipes *)

RECURSIVE CountLog(_, _)
\* how often the helper named x has run
CountLog(log, x) ==
    IF log = <<>> THEN 0
    ELSE (IF Head(log) = x THEN 1 ELSE 0) + CountLog(Tail(log), x)

\* @fast_pipes written once, by that name, every other decorator being one
\* the rewritten definition keeps: each of them applies deco to a function
OneMarkerKept(p) ==
    /\ \A i \in DOMAIN p.decorators :
          p.decorators[i] \in KeptForms \cup {Marker}
    /\ Cardinality({i \in DOMAIN p.decorators : p.decorators[i] = Marker}) = 1

\* C22: once the decorated definition statement is complete, every decorator
\* other than fast_pipes has been applied exactly once to the function that
\* ends up bound to the original name, a decorator above @fast_pipes
\* included: the rewritten definition's execution and the original
\* statement together apply it one time, not two.
C22_DecoratorsOnce ==
    (OneMarkerKept(prog) /\ pc = "defined") =>
        CountLog(effects.log, "deco") = Len(prog.decorators) - 1

====
